---- MODULE Spec2Model ----
(***************************************************************************)
(* Model of the Ansible module datadog_downtime                            *)
(* (src/monitoring/datadog_downtime.py): one invocation lists the remote   *)
(* downtimes, filters them by scope, and then creates, updates or cancels. *)
(* The remote service is the only state that outlives an invocation.       *)
(***************************************************************************)
EXTENDS Integers, Sequences, FiniteSets, TLC

(* ------------------------------ bounds --------------------------------- *)

\* Downtimes the remote store holds before the first invocation.
MaxInit == 2
\* Latest reading of the clock (time.time()).
MaxNow == 2
\* Invocations of the module in one behaviour.
MaxRuns == 2

(* ------------------------------ values --------------------------------- *)

\* Python values are tagged with their type, so that == between values of
\* different types is false, as in Python.
None == [t |-> "none", v |-> 0]
\* An integer (timestamps of the remote service, int(time.time())).
IntV(n) == [t |-> "int", v |-> n]
\* The decimal string of n: parameters without a type are strings.
StrV(n) == [t |-> "str", v |-> n]
\* A message text.
TextV(n) == [t |-> "text", v |-> n]
\* A serialized (JSON) recurrence, as the parameter carries it.
JsonV(n) == [t |-> "json", v |-> n]
\* A structured recurrence, as the remote service stores and returns it.
ObjV(n) == [t |-> "obj", v |-> n]

\* Python truthiness of a parameter: None is false, a non-empty string is
\* true (also "0").
Truthy(x) == x # None

\* int(x) of a decimal string or an integer.  int(None) raises TypeError.
int(x) == IntV(x.v)
int_raises(x) == x = None

\* json.loads of a serialized recurrence.
json_loads(s) == ObjV(s.v)

(* --------------------------- remote service ---------------------------- *)

Downtime(sc, st, en, msg, rec, can) ==
    [scope |-> sc, start |-> st, end |-> en, message |-> msg,
     recurrence |-> rec, canceled |-> can]

\* The downtimes the remote store may hold before the first invocation.
SeedDowntimes ==
    << Downtime({"a"}, IntV(0), None, None, None, FALSE),
       Downtime({"a", "b"}, IntV(0), None, None, None, FALSE),
       Downtime({"a"}, IntV(2), IntV(3), TextV(1), None, FALSE),
       Downtime({"a"}, IntV(0), None, None, ObjV(1), FALSE),
       Downtime({"a", "b"}, IntV(0), IntV(1), None, None, FALSE),
       Downtime({"a"}, IntV(0), None, None, None, TRUE) >>

\* Increasing index sequences of length n over the seeds, from index lo on.
RECURSIVE SeedChoices(_, _)
SeedChoices(n, lo) ==
    IF n = 0 THEN {<<>>}
    ELSE UNION {{<<i>> \o s : s \in SeedChoices(n - 1, i + 1)} :
                i \in lo..Len(SeedDowntimes)}

InitStores ==
    UNION {{[i \in 1..n |-> SeedDowntimes[c[i]]] : c \in SeedChoices(n, 1)} :
           n \in 0..MaxInit}

\* active is computed by the service from the current time.
Active(d, t) ==
    /\ ~d.canceled
    /\ d.start.v <= t
    /\ (d.end = None \/ t < d.end.v)

\* A downtime as the list call returns it: its identifier is its place in
\* the store.
Listed(d, i, t) ==
    [id |-> i, scope |-> d.scope, start |-> d.start, end |-> d.end,
     message |-> d.message, recurrence |-> d.recurrence,
     canceled |-> d.canceled, active |-> Active(d, t)]

\* api.Downtime.get_all()
get_all(st, t) == [i \in 1..Len(st) |-> Listed(st[i], i, t)]

\* api.Downtime.create(scope, start, end, message, recurrence)
RemoteCreate(st, sc, s, e, m, r) ==
    Append(st, Downtime(sc, int(s), IF e = None THEN None ELSE int(e), m, r, FALSE))

\* api.Downtime.update(id, start, end, message, recurrence): a field that is
\* not given is left as it is.
RemoteUpdate(st, i, s, e, m, r) ==
    [st EXCEPT ![i] =
        [@ EXCEPT !.start = IF s = None THEN @ ELSE int(s),
                  !.end = IF e = None THEN @ ELSE int(e),
                  !.message = IF m = None THEN @ ELSE m,
                  !.recurrence = IF r = None THEN @ ELSE r]]

\* api.Downtime.delete(id)
RemoteDelete(st, i) == [st EXCEPT ![i] = [@ EXCEPT !.canceled = TRUE]]

(* ----------------------------- parameters ------------------------------ *)

Params ==
    [state : {"present", "updated", "absent"},
     scope : {{"a"}, {"a", "b"}},
     start : {None, StrV(0), StrV(2)},
     end : {None, StrV(3)},
     message : {None, TextV(1)},
     recurrence : {None, JsonV(1)},
     active_only : BOOLEAN]

(* ------------------------------- state --------------------------------- *)

VARIABLES
    store,      \* the remote service's downtimes, by identifier
    now,        \* the clock of the running invocation
    run,        \* invocations started
    params,     \* module.params of the running invocation
    pc,         \* where the running invocation is
    downtimes,  \* the list find_downtimes_by_scope returned
    idx,        \* position of the update / cancel loop
    calls,      \* remote calls the running invocation has issued
    result,     \* what the invocation reported
    updated_downtimes, \* update calls of the loop that succeeded
    store0,     \* the remote store when the invocation started
    prev        \* the invocation before this one

vars == <<store, now, run, params, pc, downtimes, idx, calls, result,
          updated_downtimes, store0, prev>>

NoResult == [kind |-> "none", changed |-> FALSE, msg |-> "", found |-> 0, updated |-> 0]

\* module.exit_json(changed=..., msg=...)
exit_json(ch, m, f, u) ==
    [kind |-> "ok", changed |-> ch, msg |-> m, found |-> f, updated |-> u]

\* module.fail_json(msg=...)
fail_json(m) ==
    [kind |-> "failed", changed |-> FALSE, msg |-> m, found |-> 0, updated |-> 0]

\* An exception nobody catches ends the invocation as a module failure.
Traceback(m) ==
    [kind |-> "crashed", changed |-> FALSE, msg |-> m, found |-> 0, updated |-> 0]

\* One remote call: what was called, with what, and whether the response
\* held an 'errors' field.
Call(op, i, sc, s, e, m, r, err) ==
    [op |-> op, id |-> i, scope |-> sc, start |-> s, end |-> e,
     message |-> m, recurrence |-> r, err |-> err]

NoPrev ==
    [run |-> 0, now |-> 0, result |-> NoResult, calls |-> <<>>, store0 |-> <<>>]

Init ==
    /\ store \in InitStores
    /\ now = 1
    /\ run = 0
    /\ params = None
    /\ pc = "idle"
    /\ downtimes = <<>>
    /\ idx = 0
    /\ calls = <<>>
    /\ result = NoResult
    /\ updated_downtimes = 0
    /\ store0 = store
    /\ prev = NoPrev

(* ------------------------------- main ---------------------------------- *)

\* The module is invoked: main() up to the list call.
Invoke ==
    /\ pc = "idle"
    /\ run = 0
    /\ \E p \in Params, t \in 1..MaxNow :
        /\ params' = p
        /\ now' = t
    /\ run' = 1
    /\ pc' = "list"
    /\ downtimes' = <<>>
    /\ idx' = 0
    /\ calls' = <<>>
    /\ result' = NoResult
    /\ updated_downtimes' = 0
    /\ store0' = store
    /\ UNCHANGED <<store, prev>>

\* The module is invoked again with the parameters of the invocation that
\* just ended (a playbook run again); the clock does not go back.
Rerun ==
    /\ pc = "done"
    /\ run < MaxRuns
    /\ \E t \in now..MaxNow : now' = t
    /\ run' = run + 1
    /\ pc' = "list"
    /\ downtimes' = <<>>
    /\ idx' = 0
    /\ calls' = <<>>
    /\ result' = NoResult
    /\ updated_downtimes' = 0
    /\ store0' = store
    /\ prev' = [run |-> run, now |-> now, result |-> result,
                calls |-> calls, store0 |-> store0]
    /\ UNCHANGED <<store, params>>

(* ----------------------- find_downtimes_by_scope ----------------------- *)

\* Matches without the test of line 266: canceled downtimes stay in.
Matches_KeepsCanceled(d, p) ==
    /\ ~(~d.active /\ p.active_only)
    /\ Cardinality(p.scope \ d.scope) = 0

\* The filter of the loop over all_downtimes.
Matches(d, p) ==
    /\ ~d.canceled
    /\ ~(~d.active /\ p.active_only)
    /\ Cardinality(p.scope \ d.scope) = 0

matching_downtimes(all, p) == SelectSeq(all, LAMBDA d : Matches(d, p))

StepOf(p) ==
    CASE p.state = "present" -> "present"
      [] p.state = "updated" -> "update"
      [] p.state = "absent" -> "cancel"

find_downtimes_by_scope ==
    /\ pc = "list"
    /\ \E err \in BOOLEAN :
        LET call == Call("get_all", 0, {}, None, None, None, None, err)
            found == matching_downtimes(get_all(store, now), params)
        IN /\ calls' = Append(calls, call)
           /\ IF err
              THEN /\ result' = fail_json("Error while retrieving downtimes")
                   /\ pc' = "done"
                   /\ downtimes' = <<>>
              ELSE IF found = <<>>
              THEN /\ result' = fail_json("No downtime matching scope found")
                   /\ pc' = "done"
                   /\ downtimes' = <<>>
              ELSE /\ result' = result
                   /\ pc' = StepOf(params)
                   /\ downtimes' = found
    /\ idx' = 1
    /\ UNCHANGED <<store, now, run, params, updated_downtimes, store0, prev>>

(* ---------------------------- set_downtime ----------------------------- *)

\* The scope test of the duplicate check (first conjunct of line 195).
ScopeTest(p, d) == Cardinality(p.scope \ d.scope) = 0

\* The recurrence test of the duplicate check: the parameter as it came.
RecurrenceTest(p, d) == p.recurrence = d.recurrence

\* The loop over downtimes, from position i on: "raise" when int(start)
\* raises, "exit_end" / "exit_noend" when a downtime is a full match, and
\* "create" when the loop ends without one.
RECURSIVE set_loop(_, _, _)
set_loop(p, ds, i) ==
    IF i > Len(ds) THEN "create"
    ELSE LET d == ds[i] IN
      IF ~ScopeTest(p, d) THEN set_loop(p, ds, i + 1)
      ELSE IF int_raises(p.start) THEN "raise"
      ELSE IF /\ int(p.start) = d.start
              /\ p.message = d.message
              /\ RecurrenceTest(p, d)
           THEN IF Truthy(p.end)
                THEN IF int(p.end) = d.end THEN "exit_end"
                     ELSE set_loop(p, ds, i + 1)
                ELSE "exit_noend"
      ELSE set_loop(p, ds, i + 1)

\* The arguments of the create call (lines 204 to 211).
create_start(p, t) == IF ~Truthy(p.start) THEN IntV(t) ELSE p.start
loaded_recurrence(p) ==
    IF Truthy(p.recurrence) THEN json_loads(p.recurrence) ELSE None

set_downtime ==
    /\ pc = "present"
    /\ LET r == set_loop(params, downtimes, 1) IN
       CASE r = "raise" ->
              /\ result' = Traceback("TypeError: int() argument")
              /\ UNCHANGED <<store, calls>>
         [] r = "exit_end" ->
              /\ result' = exit_json(FALSE, "Matching downtime already present (end defined).", 0, 0)
              /\ UNCHANGED <<store, calls>>
         [] r = "exit_noend" ->
              /\ result' = exit_json(FALSE, "Matching downtime already present (no end defined).", 0, 0)
              /\ UNCHANGED <<store, calls>>
         [] r = "create" ->
              \E err \in BOOLEAN :
                LET s == create_start(params, now)
                    rec == loaded_recurrence(params)
                IN /\ calls' = Append(calls, Call("create", 0, params.scope, s,
                                        params.end, params.message, rec, err))
                   /\ IF err
                      THEN /\ result' = fail_json("Error while setting downtime")
                           /\ store' = store
                      ELSE /\ result' = exit_json(TRUE, "Downtime for scope set.", 0, 0)
                           /\ store' = RemoteCreate(store, params.scope, s,
                                          params.end, params.message, rec)
    /\ pc' = "done"
    /\ UNCHANGED <<now, run, params, downtimes, idx, updated_downtimes, store0, prev>>

(* -------------------------- update_downtimes --------------------------- *)

\* Line 233 with <= for <: a downtime that starts right now is skipped too.
skip_running_le(p, d, current_time) == Truthy(p.start) /\ d.start.v <= current_time

\* Line 233: running downtimes are skipped when a start is given.
skip_running(p, d, current_time) == Truthy(p.start) /\ d.start.v < current_time

\* The loop body without the fail_json of line 238: after an error payload
\* the loop goes on.
update_step_goes_on ==
    /\ pc = "update"
    /\ idx <= Len(downtimes)
    /\ LET d == downtimes[idx] IN
       IF Truthy(params.start) /\ d.start.v < now
       THEN /\ idx' = idx + 1
            /\ UNCHANGED <<store, calls, result, pc, updated_downtimes>>
       ELSE \E err \in BOOLEAN :
            LET rec == IF Truthy(params.recurrence)
                       THEN json_loads(params.recurrence) ELSE None IN
            /\ calls' = Append(calls, Call("update", d.id, {}, params.start,
                                  params.end, params.message, rec, err))
            /\ store' = IF err THEN store
                        ELSE RemoteUpdate(store, d.id, params.start,
                                          params.end, params.message, rec)
            /\ updated_downtimes' = updated_downtimes + 1
            /\ idx' = idx + 1
            /\ UNCHANGED <<result, pc>>
    /\ UNCHANGED <<now, run, params, downtimes, store0, prev>>

\* One pass of the loop body.
update_step ==
    /\ pc = "update"
    /\ idx <= Len(downtimes)
    /\ LET d == downtimes[idx] IN
       IF skip_running(params, d, now)
       THEN /\ idx' = idx + 1
            /\ UNCHANGED <<store, calls, result, pc, updated_downtimes>>
       ELSE \E err \in BOOLEAN :
            LET rec == loaded_recurrence(params) IN
            /\ calls' = Append(calls, Call("update", d.id, {}, params.start,
                                  params.end, params.message, rec, err))
            /\ IF err
               THEN /\ result' = fail_json("Error while updating downtime")
                    /\ pc' = "done"
                    /\ UNCHANGED <<store, idx, updated_downtimes>>
               ELSE /\ store' = RemoteUpdate(store, d.id, params.start,
                                    params.end, params.message, rec)
                    /\ updated_downtimes' = updated_downtimes + 1
                    /\ idx' = idx + 1
                    /\ UNCHANGED <<result, pc>>
    /\ UNCHANGED <<now, run, params, downtimes, store0, prev>>

\* The loop is over: line 242.
update_exit ==
    /\ pc = "update"
    /\ idx > Len(downtimes)
    /\ result' = exit_json(TRUE, "Downtime/s for scope updated (found, updated).",
                           Len(downtimes), updated_downtimes)
    /\ pc' = "done"
    /\ UNCHANGED <<store, now, run, params, downtimes, idx, calls,
                   updated_downtimes, store0, prev>>

(* -------------------------- cancel_downtimes --------------------------- *)

\* The loop body leaving the loop after its first delete call.
cancel_step_first_only ==
    /\ pc = "cancel"
    /\ idx <= Len(downtimes)
    /\ LET d == downtimes[idx] IN
       \E err \in BOOLEAN :
         /\ calls' = Append(calls, Call("delete", d.id, {}, None, None, None, None, err))
         /\ IF err
            THEN /\ result' = fail_json("Error while canceling downtime")
                 /\ pc' = "done"
                 /\ UNCHANGED <<store, idx>>
            ELSE /\ store' = RemoteDelete(store, d.id)
                 /\ idx' = Len(downtimes) + 1
                 /\ UNCHANGED <<result, pc>>
    /\ UNCHANGED <<now, run, params, downtimes, updated_downtimes, store0, prev>>

\* One pass of the loop body.
cancel_step ==
    /\ pc = "cancel"
    /\ idx <= Len(downtimes)
    /\ LET d == downtimes[idx] IN
       \E err \in BOOLEAN :
         /\ calls' = Append(calls, Call("delete", d.id, {}, None, None, None, None, err))
         /\ IF err
            THEN /\ result' = fail_json("Error while canceling downtime")
                 /\ pc' = "done"
                 /\ UNCHANGED <<store, idx>>
            ELSE /\ store' = RemoteDelete(store, d.id)
                 /\ idx' = idx + 1
                 /\ UNCHANGED <<result, pc>>
    /\ UNCHANGED <<now, run, params, downtimes, updated_downtimes, store0, prev>>

\* The loop is over: line 251.
cancel_exit ==
    /\ pc = "cancel"
    /\ idx > Len(downtimes)
    /\ result' = exit_json(TRUE, "Downtime/s for scope canceled (found).",
                           Len(downtimes), 0)
    /\ pc' = "done"
    /\ UNCHANGED <<store, now, run, params, downtimes, idx, calls,
                   updated_downtimes, store0, prev>>

(* ----------------------------------------------------------------------- *)

Next ==
    \/ Invoke
    \/ Rerun
    \/ find_downtimes_by_scope
    \/ set_downtime
    \/ update_step
    \/ update_exit
    \/ cancel_step
    \/ cancel_exit

Spec == Init /\ [][Next]_vars

(* ======================= vocabulary of the claims ====================== *)

\* No call of cs returned an error payload.
NoErr(cs) == \A k \in 1..Len(cs) : ~cs[k].err

\* How many calls of cs are op on identifier i.
Count(cs, op, i) == Cardinality({k \in 1..Len(cs) : cs[k].op = op /\ cs[k].id = i})

\* How many calls of cs are op.
CountOp(cs, op) == Cardinality({k \in 1..Len(cs) : cs[k].op = op})

\* The MatchSet as the specification words it, over the store st at time t:
\* not canceled, active when active_only, every desired tag in the scope.
MatchSetIds(st, p, t) ==
    {i \in 1..Len(st) :
        /\ ~st[i].canceled
        /\ (p.active_only => Active(st[i], t))
        /\ p.scope \subseteq st[i].scope}

\* An invocation is past its list call, which returned a non-empty MatchSet.
StepRuns == pc \in {"present", "update", "cancel"} \/ (pc = "done" /\ Len(downtimes) > 0)

\* The serialized recurrence r denotes the stored recurrence o (or both are
\* absent).
SameRecurrence(r, o) ==
    IF r = None THEN o = None ELSE o = [t |-> "obj", v |-> r.v]

\* d is an existing duplicate of what p asks for, with an explicit start:
\* scope, start, message and recurrence equal, and end equal when given.
Duplicate(d, p) ==
    /\ d.scope = p.scope
    /\ p.start # None
    /\ d.start.v = p.start.v
    /\ d.message = p.message
    /\ SameRecurrence(p.recurrence, d.recurrence)
    /\ (p.end # None => d.end # None /\ d.end.v = p.end.v)

\* As Duplicate, for a scope that holds more tags than asked for.
SupersetTwin(d, p) ==
    /\ p.scope \subseteq d.scope
    /\ d.scope # p.scope
    /\ p.start # None
    /\ d.start.v = p.start.v
    /\ d.message = p.message
    /\ SameRecurrence(p.recurrence, d.recurrence)
    /\ (p.end # None => d.end # None /\ d.end.v = p.end.v)

(* ============================== claims ================================= *)

\* C1: present invoked twice in succession with identical parameters, from a
\* store that holds no downtime for the scope and with no remote error,
\* issues exactly one create call in total: the first invocation creates
\* (changed=true), the second is a no-op (changed=false, no create call).
C1_PresentIdempotent ==
    (/\ pc = "done"
     /\ run >= 2
     /\ params.state = "present"
     /\ \A i \in 1..Len(prev.store0) : ~(params.scope \subseteq prev.store0[i].scope)
     /\ NoErr(prev.calls) /\ NoErr(calls))
    => /\ prev.result.kind = "ok" /\ prev.result.changed
       /\ result.kind = "ok" /\ ~result.changed
       /\ CountOp(prev.calls, "create") = 1
       /\ CountOp(calls, "create") = 0

\* C2: present with start omitted and no existing downtime a full match (in
\* particular with an empty store), and no remote error, issues exactly one
\* create call carrying the desired scope, start = now and the given end,
\* message and recurrence, and reports changed=true.
C2_CreateWithDefaultStart ==
    (/\ pc = "done"
     /\ params.state = "present"
     /\ params.start = None
     /\ \A i \in 1..Len(store0) :
          ~(/\ ~store0[i].canceled
            /\ store0[i].scope = params.scope
            /\ store0[i].start.v = now
            /\ store0[i].message = params.message
            /\ SameRecurrence(params.recurrence, store0[i].recurrence)
            /\ (params.end # None =>
                  store0[i].end # None /\ store0[i].end.v = params.end.v))
     /\ NoErr(calls))
    => /\ result.kind = "ok" /\ result.changed
       /\ CountOp(calls, "create") = 1
       /\ \A k \in 1..Len(calls) : calls[k].op = "create" =>
            /\ calls[k].scope = params.scope
            /\ calls[k].start = IntV(now)
            /\ calls[k].end = params.end
            /\ calls[k].message = params.message
            /\ SameRecurrence(params.recurrence, calls[k].recurrence)

\* C3: present with an explicit start, against a store holding a listed
\* (not canceled; active when active_only) downtime whose scope, start,
\* message and recurrence equal the desired values, and whose end equals the
\* desired end when one is given, reports changed=false and issues no create,
\* update or delete call, leaving the remote store unchanged.
C3_NoOpOnFullMatch ==
    (/\ pc = "done"
     /\ params.state = "present"
     /\ \E i \in MatchSetIds(store0, params, now) : Duplicate(store0[i], params)
     /\ NoErr(calls))
    => /\ result.kind = "ok" /\ ~result.changed
       /\ \A k \in 1..Len(calls) : calls[k].op = "get_all"
       /\ store = store0

\* C8: updated with active_only=true and a start supplied ignores the start:
\* every matching active downtime receives one update call that applies the
\* given end, message and recurrence and leaves its start as it was.
C8_StartIgnoredForActive ==
    (/\ pc = "done"
     /\ params.state = "updated"
     /\ params.active_only
     /\ params.start # None
     /\ NoErr(calls))
    => \A i \in MatchSetIds(store0, params, now) :
         /\ Count(calls, "update", i) = 1
         /\ store[i].start = store0[i].start
         /\ (params.end # None => store[i].end.v = params.end.v)
         /\ (params.message # None => store[i].message = params.message)
         /\ (params.recurrence # None =>
               SameRecurrence(params.recurrence, store[i].recurrence))

\* C9: the duplicate check of present wants the scope tag sets equal: with a
\* listed downtime that differs from the desired values only by holding more
\* scope tags, and no listed downtime of exactly the desired scope a
\* duplicate, present issues a create call and reports changed=true.
C9_ExactScopeInDuplicateCheck ==
    (/\ pc = "done"
     /\ params.state = "present"
     /\ \E i \in MatchSetIds(store0, params, now) : SupersetTwin(store0[i], params)
     /\ \A i \in MatchSetIds(store0, params, now) : ~Duplicate(store0[i], params)
     /\ NoErr(calls))
    => /\ CountOp(calls, "create") = 1
       /\ result.kind = "ok" /\ result.changed

\* C10: the recurrence parameter is parsed before the present path compares
\* it: present with recurrence R against a listed downtime whose stored
\* recurrence is the object R denotes, all other fields matching, is a full
\* match: changed=false and no create call.
C10_RecurrenceParsedBeforeCompare ==
    (/\ pc = "done"
     /\ params.state = "present"
     /\ params.recurrence # None
     /\ \E i \in MatchSetIds(store0, params, now) :
          /\ Duplicate(store0[i], params)
          /\ store0[i].recurrence = json_loads(params.recurrence)
     /\ NoErr(calls))
    => /\ result.kind = "ok" /\ ~result.changed
       /\ CountOp(calls, "create") = 0

Skipped(i) == params.start # None /\ store0[i].start.v < now

C6_CancelAll_AsStated ==
    (pc = "done" /\ params.state = "absent" /\ NoErr(calls)) =>
       LET ms == MatchSetIds(store0, params, now) IN
       /\ \A i \in 1..Len(store0) : Count(calls, "delete", i) = IF i \in ms THEN 1 ELSE 0
       /\ result.kind = "ok" /\ result.changed
       /\ result.found = Cardinality(ms)

\* C6 amended: the same, for a MatchSet that is not empty.
C6_CancelAll ==
    (pc = "done" /\ params.state = "absent" /\ NoErr(calls)
       /\ MatchSetIds(store0, params, now) # {}) =>
       LET ms == MatchSetIds(store0, params, now) IN
       /\ \A i \in 1..Len(store0) : Count(calls, "delete", i) = IF i \in ms THEN 1 ELSE 0
       /\ CountOp(calls, "delete") = Cardinality(ms)
       /\ result.kind = "ok" /\ result.changed
       /\ result.found = Cardinality(ms)
       /\ \A i \in ms : store[i].canceled

\* C6 witness: two downtimes match, one active and one not, and both were
\* deleted.
C6_Witness ==
    /\ pc = "done" /\ params.state = "absent" /\ ~params.active_only
    /\ result.kind = "ok" /\ result.found = 2
    /\ CountOp(calls, "delete") = 2
    /\ \E i, j \in MatchSetIds(store0, params, now) :
          Active(store0[i], now) /\ ~Active(store0[j], now)

\* What a successful update call leaves of downtime d.
UpdatedAs(d, p) ==
    [d EXCEPT !.start = IF p.start = None THEN @ ELSE IntV(p.start.v),
              !.end = IF p.end = None THEN @ ELSE IntV(p.end.v),
              !.message = IF p.message = None THEN @ ELSE p.message,
              !.recurrence = IF p.recurrence = None THEN @
                             ELSE [t |-> "obj", v |-> p.recurrence.v]]

\* C7: a remote call that returns an error payload is the last call of its
\* invocation, which reports failure; a failed list call is the only call;
\* and after a failed update or delete the downtimes behind it in the list
\* are as they were, while the ones before it keep what was done to them.
C7_FailFast ==
    /\ \A k \in 1..Len(calls) :
         calls[k].err => /\ k = Len(calls)
                         /\ pc = "done"
                         /\ result.kind = "failed"
                         /\ ~result.changed
    /\ (Len(calls) > 0 /\ calls[1].err) => (Len(calls) = 1 /\ store = store0)
    /\ (pc = "done" /\ Len(calls) > 1 /\ calls[Len(calls)].err
          /\ calls[Len(calls)].op \in {"update", "delete"}) =>
         LET k == calls[Len(calls)].id IN
         \A i \in 1..Len(store0) :
            /\ i >= k => Count(calls, "update", i) + Count(calls, "delete", i)
                            = (IF i = k THEN 1 ELSE 0)
            /\ i >= k => store[i] = store0[i]
            /\ (i < k /\ Count(calls, "update", i) = 1) =>
                  store[i] = UpdatedAs(store0[i], params)
            /\ (i < k /\ Count(calls, "delete", i) = 1) => store[i].canceled
    /\ (pc = "done" /\ Len(calls) > 1 /\ calls[Len(calls)].err
          /\ calls[Len(calls)].op = "create") => store = store0

\* C7 witness: the second update call of a loop failed after the first one
\* had changed its downtime.
C7_Witness ==
    /\ pc = "done" /\ result.kind = "failed"
    /\ Len(calls) = 3
    /\ calls[2].op = "update" /\ ~calls[2].err
    /\ calls[3].op = "update" /\ calls[3].err
    /\ store[calls[2].id] # store0[calls[2].id]
    /\ store[calls[3].id] = store0[calls[3].id]

====
